---- MODULE Spec2Model ----
(***************************************************************************)
(* Model of the AI personal email assistant: the record store              *)
(* (modules/memory_manager.py), the Gmail capability                       *)
(* (modules/email_integration.py), the calendar capability                 *)
(* (modules/calendar_integration.py), the meeting-detail parser            *)
(* (modules/llm_processor.py) and the Streamlit handlers of app.py.        *)
(*                                                                         *)
(* Text is a sequence of symbols (one-character strings, or an atomic      *)
(* token such as a Message-ID), so that prefix tests, trimming, splitting  *)
(* and tag removal are computed, not assumed.                              *)
(***************************************************************************)
EXTENDS Integers, Sequences, FiniteSets, TLC

VARIABLES
    gmail,            \* app.py:84   "ok" or "none" (load_gmail returned None)
    emails,           \* table emails
    attachments,      \* table attachments
    responses,        \* table responses
    nextId,           \* source of fresh uuid4 values
    selected_email,   \* st.session_state.selected_email (an id or "none")
    draft_response,   \* st.session_state.draft_response
    search_results,   \* st.session_state.search_results
    lastOp,           \* history: what the last handler did
    calendar,         \* app.py:87   "ok" or "none" (load_calendar returned None)
    meeting_details,  \* st.session_state.meeting_details
    available_slots,  \* st.session_state.available_slots
    hist,             \* history: which emails were analysed, whose details are held
    payload,          \* input of _get_email_body
    body,             \* its result
    sendArgs,         \* input of send_email
    outMsg,           \* its result
    events,           \* provider events of get_available_slots
    duration,         \* duration_minutes
    slots,            \* its result
    genText,          \* text generated for extract_meeting_details
    details,          \* its result
    searchResp,       \* what the search provider does with requests.get
    searchOut,        \* results of search and search_and_format
    threadRows,       \* rows of the emails table in insertion (rowid) order
    threadOut,        \* result of get_emails_by_thread
    eventIn,          \* event_details given to create_event, and the clock
    eventOut,         \* the event it builds
    parsedOut         \* attachments and has_attachment of _parse_email

appVars == <<gmail, emails, attachments, responses, nextId, selected_email,
             draft_response, search_results, lastOp, calendar,
             meeting_details, available_slots, hist>>
bodyVars == <<payload, body>>
sendVars == <<sendArgs, outMsg>>
slotVars == <<events, duration, slots>>
parseVars == <<genText, details>>
searchVars == <<searchResp, searchOut>>
eventVars == <<eventIn, eventOut>>
threadVars == <<threadRows, threadOut>>
moreVars == <<searchVars, threadVars, eventVars, parsedOut>>
vars == <<appVars, bodyVars, sendVars, slotVars, parseVars, moreVars>>

----------------------------------------------------------------------------
(* Text helpers *)

None == "none"
\* values of a result that has not been computed yet
PendingText == <<"pending">>
PendingMsg == [ok |-> FALSE, built |-> FALSE, headers |-> <<>>, body |-> ""]
NoEvents == [listOk |-> FALSE, items |-> <<>>, aware |-> FALSE]
NoSlots == [done |-> FALSE, list |-> <<>>]
EmptyDict == [x \in {} |-> <<>>]
NoDetails == [done |-> FALSE, dict |-> EmptyDict]
NoSearch == [done |-> FALSE, raised |-> FALSE, results |-> <<>>, formatted |-> <<>>]
NoThread == [done |-> FALSE, thread_id |-> "", list |-> <<>>, store |-> {}]
NoEvent == [done |-> FALSE, built |-> FALSE, start |-> 0, end |-> 0,
            created |-> FALSE]
NoParsed == [done |-> FALSE, fetchOk |-> TRUE, ok |-> FALSE,
             attachments |-> <<>>, has_attachment |-> FALSE]

SearchIdle == searchResp = None /\ searchOut = NoSearch
ThreadIdle == threadRows = <<>> /\ threadOut = NoThread
EventIdle == eventIn = None /\ eventOut = NoEvent
AttachIdle == parsedOut = NoParsed
MoreIdle == SearchIdle /\ ThreadIdle /\ EventIdle /\ AttachIdle

WS == {" ", "\n", "\t", "\r"}

RECURSIVE LStrip(_)
LStrip(s) ==
    IF s # <<>> /\ Head(s) \in WS THEN LStrip(Tail(s)) ELSE s

RECURSIVE RStrip(_)
RStrip(s) ==
    IF s # <<>> /\ s[Len(s)] \in WS THEN RStrip(SubSeq(s, 1, Len(s) - 1)) ELSE s

Strip(s) == RStrip(LStrip(s))

StartsWith(s, p) ==
    Len(s) >= Len(p) /\ SubSeq(s, 1, Len(p)) = p

RePrefixNoSpace == <<"R", "e", ":">>
RePrefix == <<"R", "e", ":", " ">>
Budget == <<"B">>

\* pat in s: pat occurs in s as a contiguous run
Contains(s, pat) ==
    \E i \in 1..(Len(s) - Len(pat) + 1) :
        \A k \in 1..Len(pat) : s[i + k - 1] = pat[k]

Digits == {"0", "1", "2", "3", "4", "5", "6", "7", "8", "9"}
DigitVal(c) == CHOOSE n \in 0..9 : ToString(n) = c

RECURSIVE DigitsValue(_)
DigitsValue(ds) ==
    IF ds = <<>> THEN 0
    ELSE 10 * DigitsValue(SubSeq(ds, 1, Len(ds) - 1)) + DigitVal(ds[Len(ds)])

\* int(s) of a string: surrounding whitespace dropped, an optional sign,
\* then one or more digits; anything else raises ValueError
ParseInt(s) ==
    LET t == Strip(s)
        signed == t # <<>> /\ t[1] \in {"+", "-"}
        ds == IF signed THEN Tail(t) ELSE t
    IN  IF ds # <<>> /\ \A i \in 1..Len(ds) : ds[i] \in Digits
        THEN [ok |-> TRUE,
              value |-> IF signed /\ t[1] = "-" THEN 0 - DigitsValue(ds)
                        ELSE DigitsValue(ds)]
        ELSE [ok |-> FALSE, value |-> 0]

----------------------------------------------------------------------------
(* Gmail capability: send_email *)

Hdr(n, v) == [name |-> n, value |-> v]

HeaderNames(hs) == {hs[i].name : i \in 1..Len(hs)}

\* {h['name']: h['value'] for h in ...}: the last header of a name wins
HeaderDict(hs) ==
    [n \in HeaderNames(hs) |->
        hs[CHOOSE i \in 1..Len(hs) :
              /\ hs[i].name = n
              /\ \A j \in (i + 1)..Len(hs) : hs[j].name # n].value]

DictGet(d, k, default) == IF k \in DOMAIN d THEN d[k] ELSE default

ReplyReferences_NoChain(headers) ==
    IF "Message-ID" \in DOMAIN headers THEN headers["Message-ID"]
    ELSE DictGet(headers, "References", <<>>)

ReplyReferences(headers) ==
    LET references == DictGet(headers, "References", <<>>) IN
    IF "Message-ID" \in DOMAIN headers
    THEN (IF references # <<>> THEN references \o <<" ">> ELSE references)
            \o headers["Message-ID"]
    ELSE references

ReplyHeaders(subject, headers) ==
    (IF "Message-ID" \in DOMAIN headers
     THEN <<Hdr("In-Reply-To", headers["Message-ID"])>> ELSE <<>>)
    \o (IF ReplyReferences(headers) # <<>>
        THEN <<Hdr("References", ReplyReferences(headers))>> ELSE <<>>)
    \o (IF ~StartsWith(subject, RePrefixNoSpace)
           /\ Strip(DictGet(headers, "Subject", <<>>)) # <<>>
        THEN <<Hdr("subject", RePrefix \o headers["Subject"])>> ELSE <<>>)

\* a: [to, subject, body, reply_to, orig (headers of the original message),
\*     getOk, sendOk (whether the provider calls succeed)]
SendEmail(a) ==
    LET base == <<Hdr("to", a.to), Hdr("subject", a.subject)>> IN
    IF a.reply_to # None /\ ~a.getOk
    THEN [ok |-> FALSE, built |-> FALSE, headers |-> base, body |-> a.body]
    ELSE [ok |-> a.sendOk, built |-> TRUE,
          headers |-> base \o (IF a.reply_to # None
                               THEN ReplyHeaders(a.subject, HeaderDict(a.orig))
                               ELSE <<>>),
          body |-> a.body]

----------------------------------------------------------------------------
(* Provider mailbox *)

MsgIds == {"m1", "m2"}

MaxList == 2
MaxIds == 2

\* what users().messages().get returns for each id, as far as the code reads it
Mailbox ==
    [m1 |-> [sender |-> "alice", subject |-> Budget, body |-> "b1",
             timestamp |-> 2, thread_id |-> "t1", nAttach |-> 0,
             headers |-> <<Hdr("Message-ID", <<"<m1>">>),
                           Hdr("Subject", Budget)>>],
     m2 |-> [sender |-> "bob", subject |-> RePrefix \o Budget, body |-> "b2",
             timestamp |-> 1, thread_id |-> "t1", nAttach |-> 1,
             headers |-> <<Hdr("Message-ID", <<"<m2>">>),
                           Hdr("Subject", RePrefix \o Budget),
                           Hdr("References", <<"<m1>">>)>>]]

\* results of messages().list: distinct ids, at most MaxList of them
Listings ==
    {l \in UNION {[1..n -> MsgIds] : n \in 0..MaxList} :
        \A i, j \in 1..Len(l) : i # j => l[i] # l[j]}

\* history kept only in the behaviours that start with hist.on: the emails
\* Analyze has run for, and the email (if any) whose most recent Analyze
\* extracted what st.session_state.meeting_details holds now
NoHist == [on |-> FALSE, classified |-> {}, detailsOf |-> None]

RecordAnalysis(h, id, extract) ==
    IF ~h.on THEN h
    ELSE [h EXCEPT !.classified = @ \cup {id},
                   !.detailsOf = IF extract THEN id
                                 ELSE IF @ = id THEN None ELSE @]

----------------------------------------------------------------------------
(* Record store *)

StoredIds == {e.id : e \in emails}

EmailById(id) == CHOOSE e \in emails : e.id = id

\* session.add + commit of a new row: an existing primary key makes the
\* commit raise IntegrityError and the session is closed without the row
SaveEmail_Upsert(em, row) ==
    [ok |-> TRUE, rows |-> {e \in em : e.id # row.id} \cup {row}]

SaveEmail(em, row) ==
    IF \E e \in em : e.id = row.id
    THEN [ok |-> FALSE, rows |-> em]
    ELSE [ok |-> TRUE, rows |-> em \cup {row}]

SaveResponse_Replace(rs, row) ==
    {r \in rs : r.email_id # row.email_id} \cup {row}

\* session.add + commit of a Response row with a new uuid4 id
SaveResponse(rs, row) == rs \cup {row}

----------------------------------------------------------------------------
(* Gmail capability: get_emails / _parse_email *)

ParsedAttachments_ThreadKey(id, nid) ==
    {[id |-> nid + k - 1, email_id |-> Mailbox[id].thread_id] :
        k \in 1..Mailbox[id].nAttach}

\* the attachments _parse_email builds, with fresh ids from nid on
ParsedAttachments(id, nid) ==
    {[id |-> nid + k - 1, email_id |-> id] : k \in 1..Mailbox[id].nAttach}

ParseEmail(id) ==
    [id |-> id, sender |-> Mailbox[id].sender, subject |-> Mailbox[id].subject,
     body |-> Mailbox[id].body, timestamp |-> Mailbox[id].timestamp,
     thread_id |-> Mailbox[id].thread_id,
     has_attachment |-> Mailbox[id].nAttach > 0]

\* the for loop of get_emails from position i on; parsed is the set of ids
\* for which _parse_email returns a result
RECURSIVE GetEmailsLoop(_, _, _, _, _, _, _)
GetEmailsLoop(list, i, parsed, em, at, nid, re) ==
    IF i > Len(list)
    THEN [outcome |-> "ok", emails |-> em, attachments |-> at, nextId |-> nid,
          reingested |-> re]
    ELSE IF list[i] \notin parsed
    THEN GetEmailsLoop(list, i + 1, parsed, em, at, nid, re)
    ELSE LET saved == SaveEmail(em, ParseEmail(list[i]))
             re2 == IF \E e \in em : e.id = list[i] THEN re \cup {list[i]} ELSE re
         IN  IF ~saved.ok
             THEN [outcome |-> "raised", emails |-> saved.rows, attachments |-> at,
                   nextId |-> nid, reingested |-> re2]
             ELSE GetEmailsLoop(list, i + 1, parsed, saved.rows,
                                at \cup ParsedAttachments(list[i], nid),
                                nid + Mailbox[list[i]].nAttach, re2)

GetEmails(list, parsed) ==
    GetEmailsLoop(list, 1, parsed, emails, attachments, nextId, {})

----------------------------------------------------------------------------
(* app.py handlers *)

DraftFor(id) == IF id = "m1" THEN "d1" ELSE "d2"
EditTexts == {"e1"}
\* search_and_format returns a non-empty text in every case and no handler
\* branches on it; what it computes is modelled under SpecSearch
SearchTexts == {"No search results found."}

UnchangedPure == UNCHANGED <<bodyVars, sendVars, slotVars, parseVars, moreVars>>

\* app.py:102-105, then the selectbox of the same run (130-135)
RefreshInbox ==
    /\ UnchangedPure
    /\ \/ /\ gmail = None
          /\ lastOp' = [op |-> "refresh", outcome |-> "raised", reingested |-> {},
                        parsed |-> {}, error |-> "AttributeError"]
          /\ UNCHANGED <<hist, gmail, calendar, meeting_details, available_slots,
                   emails, attachments, responses, nextId,
                         selected_email, draft_response, search_results>>
       \/ /\ gmail # None
          /\ \E listOk \in BOOLEAN, list \in Listings, parsed \in SUBSET MsgIds :
               LET r == IF listOk THEN GetEmails(list, parsed)
                        ELSE [outcome |-> "raised", emails |-> emails,
                              attachments |-> attachments, nextId |-> nextId,
                              reingested |-> {}]
               IN  /\ parsed \subseteq {list[i] : i \in 1..Len(list)}
                   /\ listOk \/ list = <<>>
                   /\ r.nextId <= MaxIds + 1
                   /\ emails' = r.emails
                   /\ attachments' = r.attachments
                   /\ nextId' = r.nextId
                   /\ lastOp' = [op |-> "refresh", outcome |-> r.outcome,
                                 reingested |-> r.reingested,
                                 parsed |-> IF hist.on /\ listOk THEN parsed ELSE {},
                                 error |-> IF ~listOk THEN "HttpError"
                                           ELSE IF r.outcome = "raised"
                                                THEN "IntegrityError"
                                                ELSE ""]
                   /\ IF r.outcome = "ok" /\ r.emails # {}
                      THEN selected_email' \in
                             IF selected_email # None THEN {selected_email}
                             ELSE {e.id : e \in r.emails}
                      ELSE selected_email' = selected_email
          /\ UNCHANGED <<hist, gmail, calendar, meeting_details, available_slots,
                   responses, draft_response, search_results>>

\* app.py:130-135
SelectEmail ==
    /\ UnchangedPure
    /\ \E id \in StoredIds :
         /\ selected_email' = id
         /\ lastOp' = [op |-> "select", email_id |-> id]
    /\ UNCHANGED <<hist, gmail, calendar, meeting_details, available_slots,
                   emails, attachments, responses, nextId,
                   draft_response, search_results>>

\* app.py:187-203
GenerateResponse ==
    /\ UnchangedPure
    /\ selected_email # None
    /\ \E sr \in SearchTexts, response \in {"", DraftFor(selected_email)} :
         /\ search_results' = sr
         /\ draft_response' = response
         /\ lastOp' = [op |-> "generate", email_id |-> selected_email,
                       searchCalled |-> TRUE,   \* 190-193 run unconditionally
                       context |-> sr]
    /\ UNCHANGED <<hist, gmail, calendar, meeting_details, available_slots,
                   emails, attachments, responses, nextId,
                   selected_email>>

ResponseData_Draft(id, email_id, edited, draft) ==
    [id |-> id, email_id |-> email_id, content |-> draft, sent |-> TRUE]

\* app.py:221-227
ResponseData(id, email_id, edited, draft) ==
    [id |-> id, email_id |-> email_id, content |-> edited, sent |-> TRUE]

\* app.py:231-236
ReplyArgs(email, edited, getOk, sendOk) ==
    [to |-> email.sender, subject |-> RePrefix \o email.subject,
     body |-> edited, reply_to |-> email.id, orig |-> Mailbox[email.id].headers,
     getOk |-> getOk, sendOk |-> sendOk]

\* app.py:206-241
SendResponse ==
    /\ UnchangedPure
    /\ selected_email # None
    /\ draft_response # ""
    /\ nextId <= MaxIds
    /\ \E edited \in {draft_response} \cup EditTexts, getOk, sendOk \in BOOLEAN :
         LET email == EmailById(selected_email)
             row == ResponseData(nextId, email.id, edited, draft_response)
             res == SendEmail(ReplyArgs(email, edited, getOk, sendOk))
             sent == IF gmail = None THEN "raised"
                     ELSE IF res.ok THEN "true" ELSE "false"
         IN  /\ getOk \/ sendOk
             /\ responses' = SaveResponse(responses, row)
             /\ nextId' = nextId + 1
             /\ lastOp' = [op |-> "send", email_id |-> email.id,
                           edited |-> edited, draft |-> draft_response,
                           newRows |-> responses' \ responses,
                           sent |-> sent, out |-> res,
                           error |-> IF gmail = None THEN "AttributeError"
                                     ELSE ""]
    /\ UNCHANGED <<hist, gmail, calendar, meeting_details, available_slots,
                   emails, attachments, selected_email, draft_response,
                   search_results>>

\* the literal tested at app.py:164
MeetingRequestMarker == <<"Meeting", " ", "Request">>

\* what llm.classify_email may answer
Classifications ==
    {<<"1", ".", " ", "Meeting", " ", "Request", " ", "-">>,
     <<"4", ".", " ", "FYI">>,
     <<"meeting", " ", "request">>}

IsMeetingRequest_Always(classification) == TRUE

\* app.py:164
IsMeetingRequest(classification) ==
    Contains(classification, MeetingRequestMarker)

ADate == <<"2025-01-01">>

\* what llm.extract_meeting_details may return
DetailDicts ==
    {EmptyDict,
     [k \in {"Date"} |-> ADate],
     [k \in {"Date", "Duration"} |->
         IF k = "Date" THEN ADate ELSE <<"3", "0", " ", "m">>]}

\* what calendar.suggest_meeting_times may return for a date
Suggestions(date) == {<<>>, <<[date |-> date, start |-> "09:00"]>>}

\* app.py:173
HasDate(d) == "Date" \in DOMAIN d

\* app.py:153-182
AnalyzeEmail ==
    /\ UnchangedPure
    /\ selected_email # None
    /\ \E classification \in Classifications, md \in DetailDicts :
         LET extract == IsMeetingRequest(classification)
             wantSlots == extract /\ HasDate(md)
             dur == ParseInt(DictGet(md, "Duration", <<"6", "0">>))
             error == IF ~wantSlots THEN ""
                      ELSE IF calendar = None THEN "AttributeError"
                      ELSE IF ~dur.ok THEN "ValueError"
                      ELSE ""
             suggest == wantSlots /\ error = ""
         IN  /\ extract \/ md = EmptyDict
             /\ meeting_details' = IF extract THEN md ELSE meeting_details
             /\ IF suggest
                THEN available_slots' \in Suggestions(DictGet(md, "Date", <<>>))
                ELSE available_slots' = available_slots
             /\ lastOp' = [op |-> "analyze", email_id |-> selected_email,
                           classification |-> classification,
                           extractCalled |-> extract,
                           suggestCalled |-> suggest,
                           error |-> error]
             /\ hist' = RecordAnalysis(hist, selected_email, extract)
    /\ UNCHANGED <<gmail, calendar, emails, attachments, responses, nextId,
                   selected_email, draft_response, search_results>>

NotifyResponses_Record(rs, id, email_id, edited) ==
    rs \cup {[id |-> id, email_id |-> email_id, content |-> edited,
              sent |-> FALSE]}

\* the Response rows after a notification or a scheduling: neither
\* handler calls save_response
NotifyResponses(rs, id, email_id, edited) == rs

\* app.py:244-251
SendToSlack ==
    /\ UnchangedPure
    /\ selected_email # None
    /\ draft_response # ""
    /\ \E sent \in {"true", "false"} :
         /\ responses' = NotifyResponses(responses, nextId, selected_email,
                                         draft_response)
         /\ lastOp' = [op |-> "slack", email_id |-> selected_email,
                       draft |-> draft_response,
                       sent |-> sent,
                       error |-> ""]
    /\ UNCHANGED <<hist, gmail, calendar, meeting_details, available_slots,
                   emails, attachments, nextId, selected_email,
                   draft_response, search_results>>

ScheduleGuard_Always(md) == TRUE

\* app.py:254: the truth value of st.session_state.meeting_details
ScheduleGuard(md) == md # EmptyDict

\* app.py:258: the truth value of the event id create_event returned
ConfirmationDue(created) == created

\* app.py:254-279; a click with empty meeting details runs no handler body
ScheduleMeeting ==
    /\ UnchangedPure
    /\ selected_email # None
    /\ draft_response # ""
    /\ \E created \in BOOLEAN :
         LET invoked == ScheduleGuard(meeting_details)
             due == invoked /\ ConfirmationDue(created)
             error == IF ~invoked THEN ""
                      ELSE IF calendar = None THEN "AttributeError"
                      ELSE IF due /\ gmail = None THEN "AttributeError"
                      ELSE ""
         IN  /\ (calendar = None \/ ~invoked) => ~created
             /\ responses' = IF invoked
                              THEN NotifyResponses(responses, nextId,
                                                   selected_email, draft_response)
                              ELSE responses
             /\ lastOp' = [op |-> "schedule", email_id |-> selected_email,
                           details |-> meeting_details,
                           createCalled |-> invoked,
                           created |-> created,
                           confirmed |-> due /\ gmail # None,
                           error |-> error]
    /\ UNCHANGED <<hist, gmail, calendar, meeting_details, available_slots,
                   emails, attachments, nextId, selected_email,
                   draft_response, search_results>>

\* app.py:286-308
ComposeSend ==
    /\ UnchangedPure
    /\ \E sent \in BOOLEAN :
         /\ gmail = None => ~sent
         /\ lastOp' = [op |-> "compose", sent |-> sent,
                       error |-> IF gmail = None THEN "AttributeError" ELSE ""]
    /\ UNCHANGED <<hist, gmail, calendar, meeting_details, available_slots,
                   emails, attachments, responses, nextId, selected_email,
                   draft_response, search_results>>

PureInit ==
    /\ payload = None /\ body = None
    /\ sendArgs = None /\ outMsg = None
    /\ events = NoEvents /\ duration = 0 /\ slots = NoSlots
    /\ genText = <<>> /\ details = NoDetails

Init ==
    /\ gmail \in {"ok", None}
    /\ emails = {} /\ attachments = {} /\ responses = {}
    /\ nextId = 1
    /\ selected_email = None
    /\ draft_response = ""
    /\ search_results = ""
    /\ lastOp = [op |-> "start"]
    /\ calendar \in {"ok", None}
    /\ meeting_details = EmptyDict
    /\ available_slots = <<>>
    /\ hist = NoHist
    /\ PureInit /\ MoreIdle

Next ==
    \/ RefreshInbox
    \/ SelectEmail
    \/ AnalyzeEmail
    \/ GenerateResponse
    \/ SendResponse
    \/ SendToSlack
    \/ ScheduleMeeting
    \/ ComposeSend

Spec == Init /\ [][Next]_vars

\* the same handlers with both capabilities loaded and the history kept
InitPipe ==
    /\ gmail = "ok"
    /\ emails = {} /\ attachments = {} /\ responses = {}
    /\ nextId = 1
    /\ selected_email = None
    /\ draft_response = ""
    /\ search_results = ""
    /\ lastOp = [op |-> "start"]
    /\ calendar = "ok"
    /\ meeting_details = EmptyDict
    /\ available_slots = <<>>
    /\ hist = [NoHist EXCEPT !.on = TRUE]
    /\ PureInit /\ MoreIdle

SpecPipe == InitPipe /\ [][Next]_vars

----------------------------------------------------------------------------
(* Gmail capability: _get_email_body *)

MaxNodes == 4

NoContent == <<"No content found">>
Raised == <<"UnicodeDecodeError">>

\* body.data values: the base64url text, whether it decodes as utf-8
PlainA == [b64 |-> <<"A">>, utf8 |-> TRUE]
PlainB == [b64 |-> <<"B">>, utf8 |-> TRUE]
HtmlH == [b64 |-> <<"<", "b", ">", "H", " ", " ", "i", "<", "/", "b", ">">>,
          utf8 |-> TRUE]
OtherX == [b64 |-> <<"X">>, utf8 |-> TRUE]
OtherBin == [b64 |-> <<"Y">>, utf8 |-> FALSE]
NoData == [b64 |-> <<>>, utf8 |-> TRUE]

\* a part without a 'parts' key
Leaf(m, d) ==
    [mimeType |-> m, data |-> d, hasParts |-> FALSE, parts |-> <<>>,
     filename |-> "", attachmentId |-> ""]

\* a part with a filename whose body holds an attachmentId and no data
AttachmentLeaf(f, a) ==
    [mimeType |-> "application/pdf", data |-> NoData, hasParts |-> FALSE,
     parts |-> <<>>, filename |-> f, attachmentId |-> a]

\* a multipart part: no body data, a 'parts' list
Multipart(ps) ==
    [mimeType |-> "multipart/mixed", data |-> NoData, hasParts |-> TRUE,
     parts |-> ps, filename |-> "", attachmentId |-> ""]

Leaves ==
    {Leaf("text/plain", PlainA), Leaf("text/plain", PlainB),
     Leaf("text/plain", NoData), Leaf("text/html", HtmlH),
     Leaf("application/pdf", OtherX), Leaf("application/pdf", OtherBin),
     AttachmentLeaf("f.pdf", "a1")}

RECURSIVE PartTrees(_), PartLists(_)
\* part trees of exactly n parts
PartTrees(n) ==
    IF n = 1 THEN Leaves ELSE {Multipart(ps) : ps \in PartLists(n - 1)}

\* non-empty lists of part trees of n parts in all
PartLists(n) ==
    UNION {{<<t>> \o ps : t \in PartTrees(k),
                          ps \in (IF k = n THEN {<<>>} ELSE PartLists(n - k))} :
           k \in 1..n}

Payloads == UNION {PartTrees(n) : n \in 1..MaxNodes}

\* base64.urlsafe_b64decode(data).decode('utf-8')
B64DecodeUtf8(d) == IF d.utf8 THEN d.b64 ELSE Raised

\* end of the leftmost match of '<[^<]+?>' that starts at s[1], or 0
TagEnd(s) ==
    LET ends == {j \in 3..Len(s) :
                    /\ s[j] = ">"
                    /\ \A k \in 2..(j - 1) : s[k] # "<"}
    IN  IF s # <<>> /\ s[1] = "<" /\ ends # {}
        THEN CHOOSE j \in ends : \A k \in ends : j <= k
        ELSE 0

RECURSIVE StripTags(_)
\* re.sub('<[^<]+?>', '', html)
StripTags(s) ==
    IF s = <<>> THEN <<>>
    ELSE IF TagEnd(s) > 0 THEN StripTags(SubSeq(s, TagEnd(s) + 1, Len(s)))
    ELSE <<Head(s)>> \o StripTags(Tail(s))

RECURSIVE GetEmailBody(_), PartsLoop(_, _)
\* _get_email_body
GetEmailBody(p) ==
    IF p.data.b64 # <<>> THEN B64DecodeUtf8(p.data)
    ELSE IF p.hasParts THEN PartsLoop(p.parts, 1)
    ELSE NoContent

\* the for loop over payload['parts'] from position i on
PartsLoop(parts, i) ==
    IF i > Len(parts) THEN NoContent
    ELSE LET part == parts[i] IN
         IF part.mimeType = "text/plain" /\ part.data.b64 # <<>>
         THEN B64DecodeUtf8(part.data)
         ELSE IF part.mimeType = "text/html" /\ part.data.b64 # <<>>
         THEN StripTags(B64DecodeUtf8(part.data))
         ELSE IF part.hasParts
         THEN LET b == GetEmailBody(part) IN
              IF b # <<>> THEN b ELSE PartsLoop(parts, i + 1)
         ELSE PartsLoop(parts, i + 1)

UnchangedApp == UNCHANGED <<appVars, moreVars>>

ExtractBody ==
    /\ body = PendingText
    /\ body' = GetEmailBody(payload)
    /\ UNCHANGED <<payload, sendVars, slotVars, parseVars>>
    /\ UnchangedApp

AppIdle ==
    /\ gmail = None
    /\ emails = {} /\ attachments = {} /\ responses = {}
    /\ nextId = 1
    /\ selected_email = None
    /\ draft_response = ""
    /\ search_results = ""
    /\ lastOp = [op |-> "start"]
    /\ calendar = None
    /\ meeting_details = EmptyDict
    /\ available_slots = <<>>
    /\ hist = NoHist

InitBody ==
    /\ AppIdle /\ MoreIdle
    /\ payload \in Payloads /\ body = PendingText
    /\ sendArgs = None /\ outMsg = None
    /\ events = NoEvents /\ duration = 0 /\ slots = NoSlots
    /\ genText = <<>> /\ details = NoDetails

NextBody == ExtractBody

SpecBody == InitBody /\ [][NextBody]_vars

----------------------------------------------------------------------------
(* send_email on its own: every call the code can receive *)

MaxChain == 2

RefIds == {<<"<abc@x>">>, <<"<def@y>">>}

RECURSIVE JoinIds(_)
\* a References value: message ids separated by single spaces
JoinIds(chain) ==
    IF chain = <<>> THEN <<>>
    ELSE IF Len(chain) = 1 THEN chain[1]
    ELSE chain[1] \o <<" ">> \o JoinIds(Tail(chain))

RefChains == UNION {[1..n -> RefIds] : n \in 0..MaxChain}

SubjectTexts == {Budget, RePrefix \o Budget}
OrigSubjects == {<<>>, <<" ">>, Budget, RePrefix \o Budget}

\* the headers messages().get(format='metadata') returns for the original
OrigHeaders(hasMid, mid, hasRefs, chain, hasSubj, subj) ==
    (IF hasMid THEN <<Hdr("Message-ID", mid)>> ELSE <<>>)
    \o (IF hasRefs THEN <<Hdr("References", JoinIds(chain))>> ELSE <<>>)
    \o (IF hasSubj THEN <<Hdr("Subject", subj)>> ELSE <<>>)

SendInputs ==
    {[to |-> "alice", subject |-> sj, body |-> "text", reply_to |-> rt,
      orig |-> OrigHeaders(hm, <<"<m1@z>">>, hr, chain, hs, osj),
      hasMid |-> hm, mid |-> <<"<m1@z>">>, chain |-> chain,
      getOk |-> g, sendOk |-> k] :
        sj \in SubjectTexts, rt \in {None, "m1"},
        hm \in BOOLEAN, hr \in BOOLEAN, chain \in RefChains,
        hs \in BOOLEAN, osj \in OrigSubjects, g \in BOOLEAN, k \in BOOLEAN}

CallSendEmail ==
    /\ outMsg = PendingMsg
    /\ outMsg' = SendEmail(sendArgs)
    /\ UNCHANGED <<sendArgs, bodyVars, slotVars, parseVars>>
    /\ UnchangedApp

InitSend ==
    /\ AppIdle /\ MoreIdle
    /\ payload = None /\ body = None
    /\ sendArgs \in SendInputs /\ outMsg = PendingMsg
    /\ events = NoEvents /\ duration = 0 /\ slots = NoSlots
    /\ genText = <<>> /\ details = NoDetails

NextSend == CallSendEmail

SpecSend == InitSend /\ [][NextSend]_vars

----------------------------------------------------------------------------
(* Calendar capability: get_available_slots *)

MaxEvents == 2

\* minutes since midnight on the requested day
WorkStart == 540
WorkEnd == 1020
TimeGrid == {480, WorkStart, 600, 630, 960, WorkEnd}
Durations == {30, 60, 120}

\* one item of events().list: timed (start.dateTime / end.dateTime) or
\* all-day (start.date only)
EventItems ==
    {e \in [start : TimeGrid, end : TimeGrid, timed : BOOLEAN] :
        e.start < e.end}

\* orderBy='startTime'
EventLists ==
    {l \in UNION {[1..n -> EventItems] : n \in 0..MaxEvents} :
        \A i \in 1..(Len(l) - 1) : l[i].start <= l[i + 1].start}

\* strftime('%H:%M')
HHMM(t) == <<t \div 60, t % 60>>

Slot(a, b) == [start |-> HHMM(a), end |-> HHMM(b)]

\* datetime subtraction raises TypeError when exactly one side carries a
\* UTC offset; time_min and time_max are built without one
CanSubtract(awareA, awareB) == awareA = awareB

RECURSIVE SlotsLoop(_, _, _, _)
\* the loop over events from position i on, then the trailing check;
\* cur is current_time, curAware whether it carries a UTC offset
SlotsLoop(i, cur, curAware, acc) ==
    IF i > Len(events.items)
    THEN IF ~CanSubtract(FALSE, curAware) THEN [raised |-> TRUE, list |-> acc]
         ELSE [raised |-> FALSE,
               list |-> IF WorkEnd - cur >= duration
                        THEN Append(acc, Slot(cur, WorkEnd)) ELSE acc]
    ELSE LET ev == events.items[i] IN
         IF ~ev.timed THEN SlotsLoop(i + 1, cur, curAware, acc)
         ELSE IF ~CanSubtract(events.aware, curAware)
         THEN [raised |-> TRUE, list |-> acc]
         ELSE SlotsLoop(i + 1, ev.end, events.aware,
                        IF ev.start - cur >= duration
                        THEN Append(acc, Slot(cur, ev.start)) ELSE acc)

\* get_available_slots: any exception gives []
GetAvailableSlots ==
    IF ~events.listOk THEN <<>>
    ELSE LET r == SlotsLoop(1, WorkStart, FALSE, <<>>) IN
         IF r.raised THEN <<>> ELSE r.list

CallGetAvailableSlots ==
    /\ ~slots.done
    /\ slots' = [done |-> TRUE, list |-> GetAvailableSlots]
    /\ UNCHANGED <<events, duration, bodyVars, sendVars, parseVars>>
    /\ UnchangedApp

\* events: what events().list gives: whether the call succeeds, the items,
\* and whether its dateTime strings carry a UTC offset ('Z' or +hh:mm)
InitSlots ==
    /\ AppIdle /\ MoreIdle
    /\ payload = None /\ body = None
    /\ sendArgs = None /\ outMsg = None
    /\ events \in [listOk : BOOLEAN, items : EventLists, aware : BOOLEAN]
    /\ duration \in Durations
    /\ slots = NoSlots
    /\ genText = <<>> /\ details = NoDetails

NextSlots == CallGetAvailableSlots

SpecSlots == InitSlots /\ [][NextSlots]_vars

----------------------------------------------------------------------------
(* Text-generation capability: the parser of extract_meeting_details *)

MaxText == 6

TextSymbols == {"D", ":", " ", "\n"}

GeneratedTexts == UNION {[1..n -> TextSymbols] : n \in 0..MaxText}

\* position of the first sym in s, or 0
FirstIndex(s, sym) ==
    IF \E i \in 1..Len(s) : s[i] = sym
    THEN CHOOSE i \in 1..Len(s) : s[i] = sym /\ \A j \in 1..(i - 1) : s[j] # sym
    ELSE 0

LastIndex(s, sym) ==
    IF \E i \in 1..Len(s) : s[i] = sym
    THEN CHOOSE i \in 1..Len(s) : s[i] = sym /\ \A j \in (i + 1)..Len(s) : s[j] # sym
    ELSE 0

RECURSIVE SplitLines(_)
\* str.split('\n')
SplitLines(s) ==
    IF FirstIndex(s, "\n") = 0 THEN <<s>>
    ELSE <<SubSeq(s, 1, FirstIndex(s, "\n") - 1)>>
         \o SplitLines(SubSeq(s, FirstIndex(s, "\n") + 1, Len(s)))

SplitColon_Last(line) ==
    [key |-> SubSeq(line, 1, LastIndex(line, ":") - 1),
     value |-> SubSeq(line, LastIndex(line, ":") + 1, Len(line))]

\* key, value = line.split(':', 1), for a line that contains a colon
SplitColon(line) ==
    [key |-> SubSeq(line, 1, FirstIndex(line, ":") - 1),
     value |-> SubSeq(line, FirstIndex(line, ":") + 1, Len(line))]

\* meeting_details[k] = v
DictSet(d, k, v) ==
    [x \in DOMAIN d \cup {k} |-> IF x = k THEN v ELSE d[x]]

RECURSIVE ParseLines(_, _, _)
\* the for loop over the lines from position i on
ParseLines(lines, i, d) ==
    IF i > Len(lines) THEN d
    ELSE IF FirstIndex(lines[i], ":") # 0
    THEN ParseLines(lines, i + 1,
                    DictSet(d, Strip(SplitColon(lines[i]).key),
                               Strip(SplitColon(lines[i]).value)))
    ELSE ParseLines(lines, i + 1, d)

\* the parsing half of extract_meeting_details, on the generated text
ExtractMeetingDetails(result) ==
    ParseLines(SplitLines(Strip(result)), 1, EmptyDict)

CallExtractMeetingDetails ==
    /\ ~details.done
    /\ details' = [done |-> TRUE, dict |-> ExtractMeetingDetails(genText)]
    /\ UNCHANGED <<genText, bodyVars, sendVars, slotVars>>
    /\ UnchangedApp

InitParse ==
    /\ AppIdle /\ MoreIdle
    /\ payload = None /\ body = None
    /\ sendArgs = None /\ outMsg = None
    /\ events = NoEvents /\ duration = 0 /\ slots = NoSlots
    /\ genText \in GeneratedTexts
    /\ details = NoDetails

NextParse == CallExtractMeetingDetails

SpecParse == InitParse /\ [][NextParse]_vars

----------------------------------------------------------------------------
(* Claims about the record store and the Send Response handler *)

\* C1: whenever a refresh ingests a message id that is already stored, the
\* refresh completes (the save is an insert-or-replace, it does not fail) and
\* the store holds exactly one Email row with that id.
C1_IngestIsUpsert ==
    lastOp.op = "refresh" =>
        \A id \in lastOp.reingested :
            /\ lastOp.outcome = "ok"
            /\ Cardinality({e \in emails : e.id = id}) = 1

\* C2: a stored Response row has sent = TRUE only if the send made for that
\* row has returned success.
C2_SentOnlyAfterSuccess ==
    lastOp.op = "send" =>
        \A r \in lastOp.newRows : r.sent => lastOp.sent = "true"

\* C3: a successful Send Response persists exactly one Response row, with
\* sent = TRUE, the selected email's id and the edited text as content, and
\* the body handed to send_email is that same edited text.
C3_SendPersistsEditedText ==
    (lastOp.op = "send" /\ lastOp.sent = "true") =>
        /\ Cardinality(lastOp.newRows) = 1
        /\ lastOp.newRows \subseteq responses
        /\ \A r \in lastOp.newRows :
              /\ r.sent = TRUE
              /\ r.email_id = selected_email
              /\ r.content = lastOp.edited
        /\ lastOp.out.body = lastOp.edited

C3_Witness ==
    /\ lastOp.op = "send"
    /\ lastOp.sent = "true"
    /\ lastOp.edited # lastOp.draft
    /\ Cardinality(responses) >= 2

----------------------------------------------------------------------------
(* Claims about _get_email_body *)

RECURSIVE DfsLeaves(_), DfsLeavesOfList(_)
\* the leaves of a part tree in depth-first order
DfsLeaves(p) ==
    IF p.hasParts THEN DfsLeavesOfList(p.parts) ELSE <<p>>

DfsLeavesOfList(ps) ==
    IF ps = <<>> THEN <<>> ELSE DfsLeaves(Head(ps)) \o DfsLeavesOfList(Tail(ps))

IsPlainWithData(l) == l.mimeType = "text/plain" /\ l.data.b64 # <<>>
IsHtmlWithData(l) == l.mimeType = "text/html" /\ l.data.b64 # <<>>

PlainLeaves(p) == SelectSeq(DfsLeaves(p), IsPlainWithData)
HtmlLeaves(p) == SelectSeq(DfsLeaves(p), IsHtmlWithData)

RECURSIVE CollapseRuns(_)
CollapseRuns(s) ==
    IF s = <<>> THEN <<>>
    ELSE IF Head(s) \in WS
    THEN <<" ">> \o CollapseRuns(LStrip(s))
    ELSE <<Head(s)>> \o CollapseRuns(Tail(s))

\* whitespace runs become one space, none at either end
CollapseWs(s) == Strip(CollapseRuns(s))

\* C4: when the tree has a text/plain leaf with data, the body is the
\* unmodified content of the first such leaf in depth-first order, wherever
\* html leaves and text-free multipart nodes stand.
C4_FirstPlainLeafWins ==
    (body # PendingText /\ PlainLeaves(payload) # <<>>) =>
        body = Head(PlainLeaves(payload)).data.b64

\* C5: when the only textual leaves are text/html (root or nested), the body
\* is the html content with the tags removed and the whitespace collapsed.
C5_HtmlOnlyStripped ==
    (body # PendingText /\ PlainLeaves(payload) = <<>> /\ HtmlLeaves(payload) # <<>>) =>
        /\ body = CollapseWs(StripTags(Head(HtmlLeaves(payload)).data.b64))
        /\ \A i \in 1..Len(body) : body[i] \notin {"<", ">"}

\* C6: when no text/plain or text/html leaf carries data, the body is the
\* sentinel "No content found", also when the root or a leaf of another mime
\* type carries body data.
C6_NoTextGivesSentinel ==
    (body # PendingText /\ PlainLeaves(payload) = <<>> /\ HtmlLeaves(payload) = <<>>) =>
        body = NoContent

----------------------------------------------------------------------------
(* Claims about send_email *)

HeaderValues(hs, n) == {hs[i].value : i \in {j \in 1..Len(hs) : hs[j].name = n}}
HeaderCount(hs, n) == Cardinality({j \in 1..Len(hs) : hs[j].name = n})

\* C7: a reply to a message that has a Message-ID carries In-Reply-To equal
\* to that Message-ID and References equal to the original chain, a single
\* space and the Message-ID (the Message-ID alone when the chain is empty).
C7_ReplyThreadingHeaders ==
    (outMsg # PendingMsg /\ outMsg.built
        /\ sendArgs.reply_to # None /\ sendArgs.hasMid) =>
        LET chain == IF HeaderCount(sendArgs.orig, "References") = 0 THEN <<>>
                     ELSE sendArgs.chain IN
        /\ HeaderCount(outMsg.headers, "In-Reply-To") = 1
        /\ HeaderValues(outMsg.headers, "In-Reply-To") = {sendArgs.mid}
        /\ HeaderCount(outMsg.headers, "References") = 1
        /\ HeaderValues(outMsg.headers, "References")
              = {IF chain = <<>> THEN sendArgs.mid
                 ELSE JoinIds(chain) \o <<" ">> \o sendArgs.mid}

C7_Witness ==
    /\ outMsg # PendingMsg /\ outMsg.ok
    /\ sendArgs.reply_to # None /\ sendArgs.hasMid
    /\ HeaderCount(sendArgs.orig, "References") = 1
    /\ Len(sendArgs.chain) = 2
    /\ sendArgs.chain[1] # sendArgs.chain[2]

PrefixedOnce(v) ==
    /\ StartsWith(v, RePrefix)
    /\ ~StartsWith(SubSeq(v, Len(RePrefix) + 1, Len(v)), RePrefixNoSpace)

\* C8: every reply that Send Response hands to send_email goes out with one
\* subject, which begins with "Re: " exactly once.
C8_ReplySubjectPrefixedOnce ==
    (lastOp.op = "send" /\ lastOp.sent = "true") =>
        /\ HeaderCount(lastOp.out.headers, "subject") = 1
        /\ \A v \in HeaderValues(lastOp.out.headers, "subject") : PrefixedOnce(v)

----------------------------------------------------------------------------
(* Claims about get_available_slots *)

InsideWindow(l) ==
    \A i \in 1..Len(l) :
        l[i].timed /\ WorkStart <= l[i].start /\ l[i].end <= WorkEnd

\* the i-th candidate gap: from the window start or the previous event's end
\* to the next event's start or the window end
GapStart(l, i) == IF i = 1 THEN WorkStart ELSE l[i - 1].end
GapEnd(l, i) == IF i = Len(l) + 1 THEN WorkEnd ELSE l[i].start

RECURSIVE GapsFrom(_, _, _)
GapsFrom(l, i, d) ==
    IF i > Len(l) + 1 THEN <<>>
    ELSE (IF GapEnd(l, i) - GapStart(l, i) >= d
          THEN <<Slot(GapStart(l, i), GapEnd(l, i))>> ELSE <<>>)
         \o GapsFrom(l, i + 1, d)

\* C9: for events in start order inside the window the result is, in order,
\* exactly the gaps of length >= d; one event 10:00-10:30 with d = 60 gives
\* 09:00-10:00 and 10:30-17:00.
C9_SlotsAreTheGaps ==
    (slots.done /\ events.listOk /\ InsideWindow(events.items)) =>
        /\ slots.list = GapsFrom(events.items, 1, duration)
        /\ (events.items = <<[start |-> 600, end |-> 630, timed |-> TRUE]>>
              /\ duration = 60)
            => slots.list = <<[start |-> <<9, 0>>, end |-> <<10, 0>>],
                              [start |-> <<10, 30>>, end |-> <<17, 0>>]>>

----------------------------------------------------------------------------
(* Claims about extract_meeting_details *)

\* the text without the whitespace around it, cut at its newlines: the n-th
\* line runs between the (n-1)-th and the n-th newline
NewlinePositions(s) == {i \in 1..Len(s) : s[i] = "\n"}

LineCount(s) == Cardinality(NewlinePositions(s)) + 1

LineBegin(s, n) ==
    IF n = 1 THEN 1
    ELSE 1 + CHOOSE i \in NewlinePositions(s) :
                 Cardinality({j \in NewlinePositions(s) : j <= i}) = n - 1

LineEnd(s, n) ==
    IF n = LineCount(s) THEN Len(s)
    ELSE (CHOOSE i \in NewlinePositions(s) :
             Cardinality({j \in NewlinePositions(s) : j <= i}) = n) - 1

LineAt(s, n) == SubSeq(s, LineBegin(s, n), LineEnd(s, n))

HasColon(l) == \E i \in 1..Len(l) : l[i] = ":"

\* l is k ":" v with no colon in k
IsFirstColonSplit(l, k, v) ==
    /\ l = k \o <<":">> \o v
    /\ ~HasColon(k)

KeyOf(l) == Strip(CHOOSE k \in {SubSeq(l, 1, n) : n \in 0..Len(l)} :
                     \E v \in {SubSeq(l, n, Len(l)) : n \in 1..(Len(l) + 1)} :
                         IsFirstColonSplit(l, k, v))

ValueOf(l) == Strip(CHOOSE v \in {SubSeq(l, n, Len(l)) : n \in 1..(Len(l) + 1)} :
                       \E k \in {SubSeq(l, 1, n) : n \in 0..Len(l)} :
                           IsFirstColonSplit(l, k, v))

ColonLines(s) == {n \in 1..LineCount(s) : HasColon(LineAt(s, n))}

\* C10: the parse always completes; its keys are exactly the trimmed texts
\* before the first colon of the lines that have a colon (whatever the key),
\* each key carries the trimmed text after the first colon of the last line
\* with that key, and lines without a colon add nothing.
C10_ParseByFirstColon ==
    details.done =>
        LET s == Strip(genText) IN
        /\ DOMAIN details.dict = {KeyOf(LineAt(s, n)) : n \in ColonLines(s)}
        /\ \A n \in ColonLines(s) :
              (\A m \in ColonLines(s) :
                  m > n => KeyOf(LineAt(s, m)) # KeyOf(LineAt(s, n)))
              => details.dict[KeyOf(LineAt(s, n))] = ValueOf(LineAt(s, n))

C10_Witness ==
    /\ details.done
    /\ LET s == Strip(genText) IN
       /\ \E n \in 1..LineCount(s) : ~HasColon(LineAt(s, n))
       /\ \E n \in ColonLines(s) :
             /\ HasColon(ValueOf(LineAt(s, n)))
             /\ KeyOf(LineAt(s, n)) = <<"D">>
             /\ details.dict[<<"D">>] = ValueOf(LineAt(s, n))

\* ---------------------------------------------------------------------
\* search_integration.py: search, format_results_for_llm, search_and_format
\* ---------------------------------------------------------------------
MaxItems == 2

NoResultsText == <<"No search results found.">>
StatusCodes == {200, 403, 500}
ItemKeys == {"title", "link", "snippet"}
ItemTexts == {"x"}

\* a result item of the provider: any subset of the three keys may be present
SearchItems == UNION {[ks -> ItemTexts] : ks \in SUBSET ItemKeys}

ItemLists == UNION {[1..n -> SearchItems] : n \in 0..MaxItems}

\* what requests.get and response.json() do for one request
SearchResponses ==
    [raises: BOOLEAN, status: StatusCodes, jsonOk: BOOLEAN,
     hasItems: BOOLEAN, items: ItemLists]

\* 'title': item.get('title', ''), ... (lines 51-55)
SearchResult(item) ==
    [title |-> DictGet(item, "title", ""),
     link |-> DictGet(item, "link", ""),
     snippet |-> DictGet(item, "snippet", "")]

Search_NoStatusCheck(resp) ==
    IF resp.raises THEN <<>>
    ELSE IF ~resp.jsonOk THEN <<>>
    ELSE IF resp.hasItems
         THEN [i \in 1..Len(resp.items) |-> SearchResult(resp.items[i])]
         ELSE <<>>

\* search: every exception inside the try ends in "return []"
Search(resp) ==
    IF resp.raises THEN <<>>
    ELSE IF resp.status # 200 THEN <<>>
    ELSE IF ~resp.jsonOk THEN <<>>
    ELSE IF resp.hasItems
         THEN [i \in 1..Len(resp.items) |-> SearchResult(resp.items[i])]
         ELSE <<>>

RECURSIVE FormatEntries(_, _)
\* the for loop of format_results_for_llm from entry i on
FormatEntries(results, i) ==
    IF i > Len(results) THEN <<>>
    ELSE <<ToString(i), ". ", results[i].title, "\n",
           "   URL: ", results[i].link, "\n",
           "   ", results[i].snippet, "\n\n">>
         \o FormatEntries(results, i + 1)

FormatResultsForLlm(results) ==
    IF results = <<>> THEN NoResultsText
    ELSE <<"Search Results:\n\n">> \o FormatEntries(results, 1)

SearchAndFormat(resp) == FormatResultsForLlm(Search(resp))

CallSearchAndFormat ==
    /\ ~searchOut.done
    /\ searchOut' = [done |-> TRUE, raised |-> FALSE,
                     results |-> Search(searchResp),
                     formatted |-> SearchAndFormat(searchResp)]
    /\ UNCHANGED <<searchResp, threadVars, eventVars, parsedOut>>
    /\ UNCHANGED <<appVars, bodyVars, sendVars, slotVars, parseVars>>

InitSearch ==
    /\ AppIdle /\ PureInit
    /\ ThreadIdle /\ EventIdle /\ AttachIdle
    /\ searchResp \in SearchResponses
    /\ searchOut = NoSearch

NextSearch == CallSearchAndFormat

SpecSearch == InitSearch /\ [][NextSearch]_vars

\* C11: when the search request raises or answers with a status other than
\* 200, search returns the empty sequence and search_and_format returns
\* exactly "No search results found."; neither raises.
C11_SearchFailureIsEmpty ==
    (searchOut.done /\ (searchResp.raises \/ searchResp.status # 200))
        => /\ searchOut.results = <<>>
           /\ searchOut.formatted = NoResultsText
           /\ ~searchOut.raised

C11_Witness ==
    /\ searchOut.done
    /\ ~searchResp.raises /\ searchResp.status = 403
    /\ searchResp.jsonOk /\ searchResp.hasItems /\ Len(searchResp.items) > 0
    /\ searchOut.formatted = NoResultsText

\* ---------------------------------------------------------------------
\* memory_manager.py: save_email and get_emails_by_thread
\* ---------------------------------------------------------------------
MaxRows == 3
MaxStamp == 2

ThreadIds == {"t1", "t2"}
RowIds == {ToString(i) : i \in 1..MaxRows}

\* the columns of an Email row that the thread query reads
ThreadRowData == [id: RowIds, thread_id: ThreadIds, timestamp: 1..MaxStamp]

RECURSIVE FilterThread(_, _)
\* .filter(Email.thread_id == thread_id): the matching rows, in table order
FilterThread(rows, tid) ==
    IF rows = <<>> THEN <<>>
    ELSE IF Head(rows).thread_id = tid
         THEN <<Head(rows)>> \o FilterThread(Tail(rows), tid)
         ELSE FilterThread(Tail(rows), tid)

SeqRange(q) == {q[i] : i \in 1..Len(q)}

RECURSIVE SortedOrders(_)
\* every ordering of the set of rows by ascending timestamp
SortedOrders(S) ==
    IF S = {} THEN {<<>>}
    ELSE UNION {{<<r>> \o t : t \in SortedOrders(S \ {r})} :
                r \in {x \in S : \A y \in S : x.timestamp <= y.timestamp}}

OrderBy_RowOrder(rows) == {rows}

\* .order_by(Email.timestamp): ascending; the order among equal timestamps
\* is whatever the database produces
OrderBy(rows) == SortedOrders(SeqRange(rows))

\* the possible results of get_emails_by_thread over a table
GetEmailsByThread(rows, tid) == OrderBy(FilterThread(rows, tid))

\* save_email of a row; a duplicate primary key raises and stores nothing
InsertEmail ==
    /\ Len(threadRows) < MaxRows
    /\ \E row \in ThreadRowData :
          /\ SaveEmail(emails, row).ok
          /\ emails' = SaveEmail(emails, row).rows
          /\ threadRows' = Append(threadRows, row)
    /\ UNCHANGED <<threadOut, searchVars, eventVars, parsedOut>>
    /\ UNCHANGED <<hist, gmail, calendar, meeting_details, available_slots,
                   attachments, responses, nextId, selected_email,
                   draft_response, search_results, lastOp>>
    /\ UNCHANGED <<bodyVars, sendVars, slotVars, parseVars>>

ListThread ==
    /\ \E tid \in ThreadIds :
          \E l \in GetEmailsByThread(threadRows, tid) :
              threadOut' = [done |-> TRUE, thread_id |-> tid, list |-> l,
                            store |-> emails]
    /\ UNCHANGED <<threadRows, searchVars, eventVars, parsedOut>>
    /\ UNCHANGED <<appVars, bodyVars, sendVars, slotVars, parseVars>>

InitThread ==
    /\ AppIdle /\ PureInit
    /\ SearchIdle /\ ThreadIdle /\ EventIdle /\ AttachIdle

NextThread == InsertEmail \/ ListThread

SpecThread == InitThread /\ [][NextThread]_vars

\* C12: get_emails_by_thread(thread_id) returns exactly the stored Emails
\* whose thread_id matches, each once, in ascending timestamp order,
\* whatever the order in which they were inserted.
C12_ThreadSortedAscending ==
    threadOut.done =>
        /\ SeqRange(threadOut.list) =
              {e \in threadOut.store : e.thread_id = threadOut.thread_id}
        /\ Len(threadOut.list) = Cardinality(SeqRange(threadOut.list))
        /\ \A i \in 1..Len(threadOut.list) : \A j \in i..Len(threadOut.list) :
              threadOut.list[i].timestamp <= threadOut.list[j].timestamp

\* a later message was inserted before an earlier one of the same thread,
\* with a row of another thread in the table
C12_Witness ==
    /\ threadOut.done
    /\ Len(threadOut.list) >= 2
    /\ threadOut.list[1].timestamp < threadOut.list[2].timestamp
    /\ \E i, j \in 1..Len(threadRows) :
          /\ i < j
          /\ threadRows[i] = threadOut.list[2]
          /\ threadRows[j] = threadOut.list[1]
    /\ \E e \in threadOut.store : e.thread_id # threadOut.thread_id

\* ---------------------------------------------------------------------
\* C13: every stored Attachment row and every stored Response row carries
\* the email_id of an Email row that is in the store.
C13_RowsReferenceStoredEmail ==
    /\ \A a \in attachments : a.email_id \in StoredIds
    /\ \A r \in responses : r.email_id \in StoredIds

C13_Witness ==
    /\ \E a \in attachments : a.email_id \in StoredIds
    /\ \E r \in responses : r.email_id \in StoredIds

\* ---------------------------------------------------------------------
\* C14: no Mail Capability operation lets a provider error escape to its
\* caller; here: a Refresh whose messages().list call fails does not raise.
C14_ProviderErrorsContained ==
    lastOp.op = "refresh" => lastOp.error # "HttpError"

\* C15: with the mail or the calendar capability missing, no operator
\* action (Refresh Inbox, Analyze Email, Send Response, Schedule Meeting,
\* Compose send) crashes on the missing capability.
C15_MissingCapabilityDegrades ==
    (/\ gmail = None \/ calendar = None
     /\ lastOp.op \in {"refresh", "analyze", "send", "schedule", "compose"})
        => lastOp.error # "AttributeError"

\* C18: a stored Response row never changes: every row of one state is a
\* row of the next, a new row carries an id no existing row has, and no two
\* rows share an id.
C18_ResponsesImmutable ==
    [][/\ \A r \in responses : r \in responses'
       /\ \A r \in responses' \ responses : \A q \in responses : q.id # r.id
       /\ \A r, q \in responses' : r.id = q.id => r = q]_vars

\* two dispatches for the same email with different text: two rows
C18_Witness ==
    \E r, q \in responses :
        /\ r.id # q.id
        /\ r.email_id = q.email_id
        /\ r.content # q.content

\* C19: only the Send Response handler changes the set of Response rows;
\* Generate Response, Send to Slack and Schedule Meeting leave it alone.
C19_OnlySendCreatesResponses ==
    [][responses' # responses => lastOp'.op = "send"]_vars

\* a draft was previewed on Slack and no Response row exists
C19_Witness ==
    /\ lastOp.op = "slack" /\ lastOp.sent = "true"
    /\ draft_response # ""
    /\ responses = {}

\* C20: in Analyze, extract_meeting_details runs only when the
\* classification contains "Meeting Request", suggest_meeting_times runs
\* only when the extracted details have a "Date" key, and without the
\* marker neither runs.
C20_AnalyzeGuards ==
    lastOp.op = "analyze" =>
        LET marked == Contains(lastOp.classification,
                               <<"Meeting", " ", "Request">>)
        IN  /\ lastOp.extractCalled => marked
            /\ lastOp.suggestCalled =>
                  lastOp.extractCalled /\ "Date" \in DOMAIN meeting_details
            /\ ~marked => ~lastOp.extractCalled /\ ~lastOp.suggestCalled

C20_Witness ==
    /\ lastOp.op = "analyze"
    /\ lastOp.extractCalled /\ lastOp.suggestCalled
    /\ available_slots # <<>>

\* ---------------------------------------------------------------------
\* calendar_integration.py: create_event, _format_datetime,
\* _calculate_end_time.  Instants are seconds; a day has 86400 of them.
\* ---------------------------------------------------------------------
DefaultDuration == 60

\* date strings: empty, a well-formed YYYY-MM-DD of some day, or other text
EmptyDate == [empty |-> TRUE, ok |-> FALSE, day |-> 0]
IsoDate(d) == [empty |-> FALSE, ok |-> TRUE, day |-> d]
BadDate == [empty |-> FALSE, ok |-> FALSE, day |-> 0]

\* time strings are sequences of pieces: a well-formed HH:MM, a blank, or
\* other text
HHMMText(m) == [kind |-> "hhmm", minute |-> m]
Blank == [kind |-> "space", minute |-> 0]
OtherText == [kind |-> "word", minute |-> 0]

\* datetime.now().strftime('%Y-%m-%d') and .strftime('%H:%M')
StrfDate(now) == IsoDate(now \div 86400)
StrfTime(now) == <<HHMMText((now % 86400) \div 60)>>

RECURSIVE DropBlanks(_)
DropBlanks(ts) ==
    IF ts # <<>> /\ Head(ts).kind = "space" THEN DropBlanks(Tail(ts)) ELSE ts

RECURSIVE TakeWord(_)
TakeWord(ts) ==
    IF ts = <<>> \/ Head(ts).kind = "space" THEN <<>>
    ELSE <<Head(ts)>> \o TakeWord(Tail(ts))

\* time_str.split(): [0] of it raises IndexError when there is no word
SplitWords(ts) ==
    IF DropBlanks(ts) = <<>> THEN <<>> ELSE <<TakeWord(DropBlanks(ts))>>

\* strptime(f"{date}T{time}:00", '%Y-%m-%dT%H:%M:%S')
Strptime(date, word) ==
    IF date.ok /\ Len(word) = 1 /\ word[1].kind = "hhmm"
    THEN [ok |-> TRUE, value |-> date.day * 86400 + word[1].minute * 60]
    ELSE [ok |-> FALSE, value |-> 0]

\* _format_datetime; reads are the three readings of the clock it may take
FormatDatetime(date_str, time_str, reads) ==
    LET d == IF date_str.empty THEN StrfDate(reads[1]) ELSE date_str
        t == IF time_str = <<>> THEN StrfTime(reads[2]) ELSE time_str
        words == SplitWords(t)
    IN  IF words = <<>> THEN [raised |-> TRUE, value |-> 0]
        ELSE LET p == Strptime(d, words[1])
             IN  [raised |-> FALSE,
                  value |-> IF p.ok THEN p.value ELSE reads[3]]

\* int(duration_str), 60 on ValueError
DurationMinutes(duration_str) ==
    IF ParseInt(duration_str).ok THEN ParseInt(duration_str).value
    ELSE DefaultDuration

\* _calculate_end_time: formats the start again, with later clock readings
CalculateEndTime(date_str, time_str, duration_str, reads) ==
    LET st == FormatDatetime(date_str, time_str, reads)
    IN  [raised |-> st.raised,
         value |-> st.value + DurationMinutes(duration_str) * 60]

\* readings of the clock: the last second of day 4, midnight, a minute on
ClockTimes == {5 * 86400 - 1, 5 * 86400, 5 * 86400 + 60}

\* the six readings the two _format_datetime calls may take, in call order
ClockReads ==
    {r \in [1..6 -> ClockTimes] : \A i \in 1..5 : r[i] <= r[i + 1]}

DateInputs == {EmptyDate, IsoDate(7), BadDate}

\* the values extract_meeting_details produces are stripped: no value is
\* only blanks
TimeInputs ==
    {<<>>, <<HHMMText(840)>>, <<HHMMText(840), Blank, OtherText>>,
     <<OtherText>>}

DurationInputs ==
    {<<"4", "5">>, <<"4", "5", " ", "m">>, <<>>, <<"-", "3", "0">>, <<"0">>}

\* event_details as create_event reads it, the clock, and whether
\* events().insert succeeds
EventInputs ==
    [date: DateInputs, time: TimeInputs, hasDuration: BOOLEAN,
     duration: DurationInputs, reads: ClockReads, insertOk: BOOLEAN]

\* create_event: any exception while the body is built or inserted is
\* caught and None is returned
CreateEvent(in) ==
    LET dur == IF in.hasDuration THEN in.duration ELSE <<"6", "0">>
        st == FormatDatetime(in.date, in.time, SubSeq(in.reads, 1, 3))
        en == CalculateEndTime(in.date, in.time, dur, SubSeq(in.reads, 4, 6))
    IN  IF st.raised \/ en.raised
        THEN [done |-> TRUE, built |-> FALSE, start |-> 0, end |-> 0,
              created |-> FALSE]
        ELSE [done |-> TRUE, built |-> TRUE, start |-> st.value,
              end |-> en.value, created |-> in.insertOk]

CallCreateEvent ==
    /\ ~eventOut.done
    /\ eventOut' = CreateEvent(eventIn)
    /\ UNCHANGED <<eventIn, searchVars, threadVars, parsedOut>>
    /\ UNCHANGED <<appVars, bodyVars, sendVars, slotVars, parseVars>>

InitEvent ==
    /\ AppIdle /\ PureInit
    /\ SearchIdle /\ ThreadIdle /\ AttachIdle
    /\ eventIn \in {in \in EventInputs :
                       in.hasDuration \/ in.duration = <<>>}
    /\ eventOut = NoEvent

NextEvent == CallCreateEvent

SpecEvent == InitEvent /\ [][NextEvent]_vars

\* the Duration the claims speak of: the integer given, else 60
ClaimedMinutes ==
    IF eventIn.hasDuration /\ ParseInt(eventIn.duration).ok
    THEN ParseInt(eventIn.duration).value
    ELSE 60

\* C16: for every meeting-details input create_event builds an event whose
\* end is its start plus Duration minutes (60 when Duration is missing or
\* not an integer), the start being the instant (Date, Time) names when
\* they parse.
C16_EndIsStartPlusDuration ==
    eventOut.done =>
        /\ eventOut.built
        /\ eventOut.end = eventOut.start + ClaimedMinutes * 60
        /\ (eventIn.date.ok /\ eventIn.time = <<HHMMText(840)>>)
              => eventOut.start = eventIn.date.day * 86400 + 840 * 60

\* ---------------------------------------------------------------------
\* email_integration.py: the attachments of _parse_email
\* ---------------------------------------------------------------------

\* line 101: part.get('filename') and part.get('body') and
\* part['body'].get('attachmentId')
IsAttachmentPart(part) == part.filename # "" /\ part.attachmentId # ""

RECURSIVE AttachmentsLoop(_, _)
\* lines 99-113: the for loop over message['payload']['parts'] from i on;
\* the parts of a part are not visited
AttachmentsLoop(parts, i) ==
    IF i > Len(parts) THEN <<>>
    ELSE (IF IsAttachmentPart(parts[i])
          THEN <<[filename |-> parts[i].filename,
                  content_type |-> parts[i].mimeType]>>
          ELSE <<>>)
         \o AttachmentsLoop(parts, i + 1)

\* _parse_email, as far as body and attachments go: an exception from the
\* body decoding or from an attachment download makes it return None
ParseEmailParts(p, fetchOk) ==
    LET b == GetEmailBody(p)
        at == IF p.hasParts THEN AttachmentsLoop(p.parts, 1) ELSE <<>>
        ok == b # Raised /\ (at = <<>> \/ fetchOk)
    IN  [done |-> TRUE, fetchOk |-> fetchOk, ok |-> ok,
         attachments |-> IF ok THEN at ELSE <<>>,
         has_attachment |-> ok /\ at # <<>>]

CallParseEmail ==
    /\ ~parsedOut.done
    /\ body' = GetEmailBody(payload)
    /\ parsedOut' = ParseEmailParts(payload, parsedOut.fetchOk)
    /\ UNCHANGED <<payload, sendVars, slotVars, parseVars>>
    /\ UNCHANGED <<appVars, searchVars, threadVars, eventVars>>

InitAttach ==
    /\ AppIdle
    /\ SearchIdle /\ ThreadIdle /\ EventIdle
    /\ payload \in Payloads /\ body = PendingText
    /\ parsedOut \in {[NoParsed EXCEPT !.fetchOk = b] : b \in BOOLEAN}
    /\ sendArgs = None /\ outMsg = None
    /\ events = NoEvents /\ duration = 0 /\ slots = NoSlots
    /\ genText = <<>> /\ details = NoDetails

NextAttach == CallParseEmail

SpecAttach == InitAttach /\ [][NextAttach]_vars

RECURSIVE AllParts(_), AllPartsOfList(_)
\* every part below p, in document order
AllParts(p) == IF p.hasParts THEN AllPartsOfList(p.parts) ELSE <<>>

AllPartsOfList(ps) ==
    IF ps = <<>> THEN <<>>
    ELSE <<Head(ps)>> \o AllParts(Head(ps)) \o AllPartsOfList(Tail(ps))

AttachmentPartCount(p) ==
    Cardinality({i \in 1..Len(AllParts(p)) : IsAttachmentPart(AllParts(p)[i])})

\* C17: a parsed message has one attachment for every part anywhere in its
\* part tree that has a filename and an attachmentId, and has_attachment
\* is true exactly when there is such a part.
C17_EveryAttachmentPartYieldsOne ==
    (parsedOut.done /\ parsedOut.ok) =>
        /\ Len(parsedOut.attachments) = AttachmentPartCount(payload)
        /\ parsedOut.has_attachment <=> AttachmentPartCount(payload) > 0

\* ---------------------------------------------------------------------
\* Claims about the Schedule Meeting handler
\* ---------------------------------------------------------------------
\* C21: in the Schedule Meeting action a confirmation email is sent only
\* after create_event returned an event id for the stored meeting details;
\* when create_event returns None no email is sent, and when the stored
\* meeting details are empty neither create_event nor send is invoked.
C21_ConfirmationOnlyAfterEvent ==
    lastOp.op = "schedule" =>
        /\ lastOp.confirmed => lastOp.createCalled /\ lastOp.created
        /\ lastOp.created => lastOp.createCalled
        /\ lastOp.createCalled => lastOp.details # EmptyDict
        /\ lastOp.details = meeting_details

C21_Witness ==
    /\ lastOp.op = "schedule"
    /\ lastOp.confirmed
    /\ lastOp.created
    /\ lastOp.details # EmptyDict

\* ---------------------------------------------------------------------
\* Claims about the order of the per-email pipeline
\* ---------------------------------------------------------------------
\* C22: a draft is generated for an email only after Analyze has run for
\* that email: no email is Drafted that was never Classified.
C22_DraftedOnlyAfterClassified ==
    lastOp.op = "generate" => lastOp.email_id \in hist.classified

\* a Generate Response step that invokes neither generate_search_query nor
\* the search provider and drafts with no context
GenerateWithoutSearch ==
    /\ GenerateResponse
    /\ ~lastOp'.searchCalled
    /\ lastOp'.context = ""

\* C23: search augmentation is optional: wherever a draft can be generated
\* for the selected email, it can be generated without generate_search_query
\* or the search provider being invoked, and then draft_response gets no
\* context.
C23_SearchIsOptional ==
    selected_email # None => ENABLED GenerateWithoutSearch

\* a Schedule Meeting step that calls create_event
ScheduleInvoked == ScheduleMeeting /\ lastOp'.createCalled

C25_DraftBelongsToSelected ==
    lastOp.op \in {"send", "slack"} =>
        lastOp.draft = DraftFor(lastOp.email_id)

\* C26: whenever Schedule Meeting creates an event and sends a confirmation
\* to the selected email E's sender, the meeting details used were
\* extracted by the most recent Analyze of E, and that Analyze classified E
\* as a Meeting Request.
C26_ScheduledDetailsAreFresh ==
    (/\ lastOp.op = "schedule"
     /\ lastOp.created
     /\ lastOp.confirmed) =>
        /\ lastOp.email_id \in hist.classified
        /\ hist.detailsOf = lastOp.email_id

\* ---------------------------------------------------------------------
\* Claims about a refresh over an inbox that is partly stored already
\* ---------------------------------------------------------------------
\* C27: after every Refresh each listed message id that parsed successfully
\* is present in the store together with its attachments, also when some of
\* the listed messages were stored by an earlier refresh.
C27_RefreshStoresEveryParsed ==
    lastOp.op = "refresh" =>
        \A id \in lastOp.parsed :
            /\ id \in StoredIds
            /\ Cardinality({a \in attachments : a.email_id = id})
                   = Mailbox[id].nAttach

\* ---------------------------------------------------------------------
\* Claims about get_available_slots over overlapping events
\* ---------------------------------------------------------------------
MinuteOf(hm) == hm[1] * 60 + hm[2]

SlotOverlaps(s, e) ==
    MinuteOf(s.start) < e.end /\ e.start < MinuteOf(s.end)

\* C28: for any list of existing events, overlapping or nested ones
\* included, no returned slot overlaps an existing event, and every
\* returned slot has start < end and lies inside 09:00-17:00.
C28_SlotsAvoidEveryEvent ==
    slots.done =>
        \A i \in 1..Len(slots.list) :
            LET s == slots.list[i] IN
            /\ MinuteOf(s.start) < MinuteOf(s.end)
            /\ WorkStart <= MinuteOf(s.start)
            /\ MinuteOf(s.end) <= WorkEnd
            /\ \A j \in 1..Len(events.items) :
                 events.items[j].timed => ~SlotOverlaps(s, events.items[j])

\* ---------------------------------------------------------------------
\* Claims about the duration given to create_event and to Analyze
\* ---------------------------------------------------------------------
\* C29: for every meeting-details input, a Duration of zero or a negative
\* Duration included, the event create_event builds ends strictly later
\* than it starts.
C29_EndAfterStart ==
    (eventOut.done /\ eventOut.built) => eventOut.end > eventOut.start

\* C30: Analyze completes without raising for every extracted
\* meeting-details dictionary that contains a Date key, whether its Duration
\* is missing, empty or not an integer; a malformed Duration degrades to the
\* 60-minute default, so the slot suggestions are still requested.
C30_MalformedDurationDegrades ==
    (/\ lastOp.op = "analyze"
     /\ lastOp.extractCalled
     /\ HasDate(meeting_details)
     /\ calendar # None) =>
        /\ lastOp.error = ""
        /\ lastOp.suggestCalled

====
